---- MODULE Spec2Model ----
(***************************************************************************)
(* Model of simple_lines: RcLineIterator (src/src/bound.rs), created by    *)
(* ReadExt::lines_rc_with_capacity (src/src/lib.rs).  One call of          *)
(* Iterator::next is one step of the model.  The bytes of the underlying   *)
(* reader, the Rc<String> storages and the handles the caller still holds  *)
(* are part of the state.                                                  *)
(***************************************************************************)
EXTENDS Integers, Sequences, FiniteSets, TLC

(* ------------------------------ bounds --------------------------------- *)
\* longest enumerated input, in bytes
MaxLen == 3
\* largest enumerated buffer capacity
MaxCap == 2
\* number of read failures the underlying reader may report in one run
MaxIoFail == 1
\* number of next() calls made after the first end-of-sequence
MaxEndCalls == 1

(* --------------------------- bytes and inputs --------------------------- *)
LF == 10
CR == 13
LetterA == 97
InvalidByte == 254

\* bytes the enumerated inputs are built from
Alphabet == {LetterA, CR, LF, InvalidByte}

\* 64 * 1024, the capacity lines_rc() passes on
DefaultCapacity == 64 * 1024

\* the input of the doc test of lines_rc: "12345678\r\n123", read with capacity 5
DocInput == <<49, 50, 51, 52, 53, 54, 55, 56, CR, LF, 49, 50, 51>>
DocCapacity == 5

\* ['a', 'b', 254] of tests::assert_non_ascii_returns_error
NonAsciiInput == <<LetterA, 98, InvalidByte>>

\* inputs holding the two-byte character U+00E9 (0xC3 0xA9), whole and split by a chunk
TwoByteInputs == { <<LetterA, 195, 169, LF>>, <<195, 169>>, <<195, 169, LF, LetterA>> }

\* longer inputs: an over-long line with an invalid byte in its tail, followed by
\* further lines, read with capacity 2
LongInputs ==
    { <<LetterA, LetterA, InvalidByte, LF, LetterA>>,
      <<LetterA, LetterA, InvalidByte, LF, LetterA, LF, LetterA>>,
      <<LetterA, LetterA, LetterA, CR, LF, LetterA, LF>> }

\* the inputs of the tests that go through assert_behave_same (lib.rs 80-98),
\* read with the default capacity
Space == 32

TestInputs ==
    { <<Space, CR, LF>>, <<Space, LF>>, <<CR, LF, Space>>, <<LF, Space>>,
      <<CR, LF, CR, LF>>, <<LF, LF>>, <<CR, LF, LetterA>> }

\* the capacity the longer inputs are read with
LongCapacity == 2

BoundedInputs == UNION { [1..n -> Alphabet] : n \in 0..MaxLen }

\* <<input, capacity>> pairs a run starts from
InitCases ==
    (BoundedInputs \X (1..MaxCap))
      \cup (TwoByteInputs \X (1..MaxCap))
      \cup (LongInputs \X {LongCapacity})
      \cup (TestInputs \X {DefaultCapacity})
      \cup { <<DocInput, DocCapacity>>, <<NonAsciiInput, DefaultCapacity>> }

(* ------------------------------- helpers -------------------------------- *)
Min(a, b) == IF a < b THEN a ELSE b

Last(s) == s[Len(s)]

DropFirst(s, n) == SubSeq(s, n + 1, Len(s))

(* ------------------------------ the reader ------------------------------ *)
\* index of the first LF of rest, or Len(rest) if there is none
RECURSIVE FirstDelimiter(_, _)
FirstDelimiter(rest, i) ==
    IF i > Len(rest) THEN Len(rest)
    ELSE IF rest[i] = LF THEN i
    ELSE FirstDelimiter(rest, i + 1)

\* LineReader::next_line: the bytes up to and including the next LF, at most
\* cap of them; what is left of the input at end of stream
NextLine(rest, cap) == SubSeq(rest, 1, Min(FirstDelimiter(rest, 1), cap))

(* ------------------------- RcLineIterator::next ------------------------- *)
StripOnlyLF(line) ==
    IF Len(line) > 0 /\ Last(line) = LF
    THEN SubSeq(line, 1, Len(line) - 1)
    ELSE line

StripLoose(line) ==
    LET l1 == StripOnlyLF(line)
    IN  IF Len(l1) > 0 /\ Last(l1) = CR THEN SubSeq(l1, 1, Len(l1) - 1) ELSE l1

\* bound.rs 33-39: drop one trailing LF and then one trailing CR
StripDelimiter(line) ==
    IF Len(line) > 0 /\ Last(line) = LF
    THEN LET l1 == SubSeq(line, 1, Len(line) - 1)
         IN  IF Len(l1) > 0 /\ Last(l1) = CR
             THEN SubSeq(l1, 1, Len(l1) - 1)
             ELSE l1
    ELSE line

IsContinuation(b) == b >= 128 /\ b <= 191

\* std::str::from_utf8: well-formed UTF-8
RECURSIVE IsUtf8(_)
IsUtf8(s) ==
    IF s = <<>> THEN TRUE
    ELSE LET b == s[1] IN
      IF b < 128 THEN IsUtf8(DropFirst(s, 1))
      ELSE IF b >= 194 /\ b <= 223
        THEN Len(s) >= 2 /\ IsContinuation(s[2]) /\ IsUtf8(DropFirst(s, 2))
      ELSE IF b >= 224 /\ b <= 239
        THEN /\ Len(s) >= 3
             /\ IsContinuation(s[2]) /\ IsContinuation(s[3])
             /\ (b = 224 => s[2] >= 160)
             /\ (b = 237 => s[2] <= 159)
             /\ IsUtf8(DropFirst(s, 3))
      ELSE IF b >= 240 /\ b <= 244
        THEN /\ Len(s) >= 4
             /\ IsContinuation(s[2]) /\ IsContinuation(s[3]) /\ IsContinuation(s[4])
             /\ (b = 240 => s[2] >= 144)
             /\ (b = 244 => s[2] <= 143)
             /\ IsUtf8(DropFirst(s, 4))
      ELSE FALSE

ValidateUnchecked(line) == TRUE

\* bound.rs 47: std::str::from_utf8(line)? lets the call go on only for valid text
Validate(line) == IsUtf8(line)

VARIABLES
    input,               \* the bytes of the underlying reader
    max_size,            \* RcLineIterator.max_size, the capacity
    pos,                 \* line_reader: number of input bytes already delivered
    buffer,              \* RcLineIterator.buffer: the storage the Rc points to
    pending_incomplete,  \* RcLineIterator.pending_incomplete
    heap,                \* content of every live String storage
    held,                \* handles the caller holds: storage and content seen on return
    allocs,              \* storages allocated since construction
    ioFails,             \* read failures reported so far
    results              \* log of what every next() call returned

vars == <<input, max_size, pos, buffer, pending_incomplete, heap, held, allocs,
          ioFails, results>>

HeldIds == { h.id : h \in held }

\* bound.rs 40: Rc::get_mut(buffer) is Some iff the iterator holds the only handle
GetMutAlways(b, ids) == TRUE

GetMutNever(b, ids) == FALSE

GetMut(b, ids) == b \notin ids

KeptContent(old) == old

\* bound.rs 41: r.clear()
ClearedContent(old) == <<>>

FreshFilled(n) == [i \in 1..n |-> 0]

\* bound.rs 44: String::with_capacity(line.len()) is an empty string
FreshContent(n) == <<>>

\* bound.rs 48: owned.push_str(line_str)
PushStr(s, t) == s \o t

\* bound.rs 50: max_size == buffer.len()
BufferFull(cap, content) == cap = Len(content)

VariantForgetful(full, pending) == IF full THEN "Incomplete" ELSE "Ok"

\* bound.rs 50-58: the variant returned for valid text
Variant(full, pending) ==
    IF full THEN "Incomplete"
    ELSE IF pending THEN "Incomplete"
    ELSE "Ok"

\* bound.rs 51, 54: pending_incomplete after a call that returned valid text
PendingAfter(full, pending) ==
    IF full THEN TRUE
    ELSE IF pending THEN FALSE
    ELSE pending

ReaderCapacityDefault(buffer_capacity) == DefaultCapacity

\* lib.rs 53-56: the capacity of the LineReader is the max_size of the iterator
ReaderCapacity(buffer_capacity) == buffer_capacity

PendingOnEncodingCleared(pending) == FALSE

\* bound.rs 47: the ? returns before lines 50-58, pending_incomplete is not assigned
PendingOnEncoding(pending) == pending

ReturnsNoneFused(lineIsNone, lastFailed) == lineIsNone \/ lastFailed

\* bound.rs 31: next_line().map(..) is None exactly when next_line() is None,
\* whatever the call before returned
ReturnsNone(lineIsNone, lastFailed) == lineIsNone

FieldsOnNoneHoisted(p, b, fresh) == [pending |-> p, buffer |-> fresh]

\* bound.rs 31: Option::map on None runs no closure; pending_incomplete and
\* buffer stay as they are
FieldsOnNone(p, b, fresh) == [pending |-> p, buffer |-> b]

\* storages still referenced by the iterator or by a caller's handle
Live(b, hs) == {b} \cup { h.id : h \in hs }

Result(tag, content, from, raw, id, pin) ==
    [tag |-> tag, content |-> content, from |-> from, raw |-> raw, id |-> id,
     pin |-> pin]

Exhausted == results # <<>> /\ Last(results).tag = "End"

EndCalls == Cardinality({ i \in 1..Len(results) : results[i].tag = "End" })

\* RcLineIterator::new (bound.rs 14-21) on LineReader::with_capacity (lib.rs 52-57)
Init ==
    /\ \E c \in InitCases : input = c[1] /\ max_size = c[2]
    /\ pos = 0
    /\ buffer = 0
    /\ pending_incomplete = FALSE
    /\ heap = [s \in {0} |-> <<>>]
    /\ held = {}
    /\ allocs = 0
    /\ ioFails = 0
    /\ results = <<>>

\* LineReader::next_line is None: every byte of the input has been delivered
ReaderAtEnd == pos = Len(input)

LastFailed == results # <<>> /\ Last(results).tag \in {"Io", "Encoding"}

\* next(): next_line() returned None
NextEnd ==
    /\ ReturnsNone(ReaderAtEnd, LastFailed)
    /\ EndCalls <= MaxEndCalls
    /\ LET f == FieldsOnNone(pending_incomplete, buffer, allocs + 1)
       IN  /\ pending_incomplete' = f.pending
           /\ buffer' = f.buffer
           /\ allocs' = IF f.buffer = buffer THEN allocs ELSE allocs + 1
           /\ heap' = [s \in Live(f.buffer, held) |->
                         IF s \in DOMAIN heap THEN heap[s] ELSE <<>>]
    /\ results' = Append(results,
                         Result("End", <<>>, pos, <<>>, -1, pending_incomplete))
    /\ UNCHANGED <<input, max_size, pos, held, ioFails>>

\* next(): next_line() returned Some(Err(e)); line? returns Error::Io (bound.rs 32)
NextIo ==
    /\ ~Exhausted
    /\ ioFails < MaxIoFail
    /\ ioFails' = ioFails + 1
    /\ results' = Append(results,
                         Result("Io", <<>>, pos, <<>>, -1, pending_incomplete))
    /\ UNCHANGED <<input, max_size, pos, buffer, pending_incomplete, heap, held,
                   allocs>>

\* next(): next_line() returned Some(Ok(line)) (bound.rs 31-58)
NextChunk ==
    /\ ~ReturnsNone(ReaderAtEnd, LastFailed)
    /\ ~ReaderAtEnd
    /\ LET raw     == NextLine(DropFirst(input, pos), ReaderCapacity(max_size))
           line    == StripDelimiter(raw)
           unique  == GetMut(buffer, HeldIds)
           b1      == IF unique THEN buffer ELSE allocs + 1
           empty   == IF unique THEN ClearedContent(heap[buffer])
                                ELSE FreshContent(Len(line))
           valid   == Validate(line)
           content == IF valid THEN PushStr(empty, line) ELSE empty
           full    == BufferFull(max_size, content)
           tag     == IF valid THEN Variant(full, pending_incomplete) ELSE "Encoding"
           held1   == IF valid THEN held \cup {[id |-> b1, seen |-> content]}
                               ELSE held
       IN  /\ pos' = pos + Len(raw)
           /\ buffer' = b1
           /\ allocs' = IF unique THEN allocs ELSE allocs + 1
           /\ held' = held1
           /\ heap' = [s \in Live(b1, held1) |-> IF s = b1 THEN content ELSE heap[s]]
           /\ pending_incomplete' =
                  IF valid THEN PendingAfter(full, pending_incomplete)
                           ELSE PendingOnEncoding(pending_incomplete)
           /\ results' = Append(results,
                  Result(tag, IF valid THEN content ELSE <<>>, pos, raw,
                         IF valid THEN b1 ELSE -1, pending_incomplete))
    /\ UNCHANGED <<input, max_size, ioFails>>

\* the caller drops one of the handles it holds
DropHandle ==
    /\ \E h \in held :
          /\ held' = held \ {h}
          /\ heap' = [s \in Live(buffer, held \ {h}) |-> heap[s]]
    /\ UNCHANGED <<input, max_size, pos, buffer, pending_incomplete, allocs,
                   ioFails, results>>

Next == NextEnd \/ NextIo \/ NextChunk \/ DropHandle

Spec == Init /\ [][Next]_vars

TypeOK ==
    /\ pos \in 0..Len(input)
    /\ buffer \in DOMAIN heap
    /\ pending_incomplete \in BOOLEAN
    /\ \A h \in held : h.id \in DOMAIN heap
(* ------------------------- logical lines of the input ------------------- *)
\* offset at which the logical line holding offset p starts
RECURSIVE LineStart(_, _)
LineStart(inp, p) ==
    IF p = 0 THEN 0
    ELSE IF inp[p] = LF THEN p
    ELSE LineStart(inp, p - 1)

\* offset just behind the logical line holding offset p (its LF included)
LineEnd(inp, p) == p + FirstDelimiter(DropFirst(inp, p), 1)

\* the call delivered a chunk of the input
HasChunk(r) == r.raw # <<>>

ChunkEnd(r) == r.from + Len(r.raw)

\* the chunk of r is a whole logical line
WholeLine(r) ==
    /\ HasChunk(r)
    /\ r.from = LineStart(input, r.from)
    /\ ChunkEnd(r) = LineEnd(input, r.from)

\* the chunk of r is one of several pieces of its logical line
PieceOfSplitLine(r) == HasChunk(r) /\ ~WholeLine(r)

Indexes == 1..Len(results)

NoIoFailure == ioFails = 0

(* --------------------------------- C1 ----------------------------------- *)
\* C1: every piece of a logical line that was read in more than one chunk is
\* returned as Incomplete, Io or Encoding and never as Ok, the last piece of
\* the line included.
C1_SplitLineNeverOk ==
    \A i \in Indexes : PieceOfSplitLine(results[i]) => results[i].tag # "Ok"
(* --------------------------------- C2 ----------------------------------- *)
\* std::io::BufRead::lines, the reference of tests::assert_behave_same: every
\* line up to its LF, LF and a CR before it removed, an error for a line that
\* is not UTF-8
StdStrip(raw) ==
    LET n == Len(raw)
    IN  IF n >= 2 /\ raw[n] = LF /\ raw[n - 1] = CR THEN SubSeq(raw, 1, n - 2)
        ELSE IF n >= 1 /\ raw[n] = LF THEN SubSeq(raw, 1, n - 1)
        ELSE raw

RECURSIVE StdLines(_)
StdLines(inp) ==
    IF inp = <<>> THEN <<>>
    ELSE LET n   == FirstDelimiter(inp, 1)
             raw == SubSeq(inp, 1, n)
         IN  << IF IsUtf8(raw) THEN [ok |-> TRUE, text |-> StdStrip(raw)]
                               ELSE [ok |-> FALSE, text |-> <<>>] >>
             \o StdLines(DropFirst(inp, n))

\* the results that stand for a chunk; a read failure of the underlying reader
\* is reported by both splitters and consumes no input
IsData(r) == r.tag \notin {"Io", "End"}

DataResults == SelectSeq(results, IsData)

SameItem(r, s) ==
    IF s.ok THEN r.tag = "Ok" /\ r.content = s.text
            ELSE r.tag \in {"Encoding", "Incomplete"}

\* the results so far are the first items of the standard splitter, and both
\* sequences end together
BehaveSame ==
    LET std == StdLines(input)
        own == DataResults
    IN  /\ Len(own) <= Len(std)
        /\ \A i \in 1..Len(own) : SameItem(own[i], std[i])
        /\ Exhausted => Len(own) = Len(std)
        /\ Len(own) = Len(std) => pos = Len(input)

LineLen(p) == LineEnd(input, p) - LineStart(input, p)

Terminated(p) == input[LineEnd(input, p)] = LF

Offsets == 0..(Len(input) - 1)

\* no line, its terminator included, is longer than the capacity
LinesFit == \A p \in Offsets : LineLen(p) <= max_size

\* ... and a last line without terminator is shorter than the capacity
LinesFitStrict ==
    \A p \in Offsets :
        /\ LineLen(p) <= max_size
        /\ ~Terminated(p) => LineLen(p) < max_size

\* C2 as stated: for inputs with no line exceeding capacity bytes the results
\* equal those of std::io::BufReader::lines, item by item, both ending together.
C2_AsStated == LinesFit => BehaveSame

\* C2 amended: for inputs in which every line, terminator included, is at most
\* capacity bytes long and a last line without terminator is shorter than
\* capacity, the results equal those of std::io::BufReader::lines, item by
\* item, both ending together.
C2_BehaveSameBelowCapacity == LinesFitStrict => BehaveSame

C2_Witness ==
    /\ Exhausted
    /\ LinesFitStrict
    /\ Len(DataResults) >= 2
    /\ \E i \in Indexes :
          /\ results[i].tag = "Ok"
          /\ Len(results[i].raw) >= 2
          /\ results[i].raw[Len(results[i].raw) - 1] = CR
    /\ \E i \in Indexes : results[i].tag = "Encoding"
(* --------------------------------- C3 ----------------------------------- *)
IsText(r) == r.tag \in {"Ok", "Incomplete"}

\* tag and content of every call, in order
Outcomes == [i \in Indexes |-> [tag |-> results[i].tag, content |-> results[i].content]]

Outcome(tag, content) == [tag |-> tag, content |-> content]

\* the results the doc test of lines_rc expects
DocOutcomes ==
    << Outcome("Incomplete", <<49, 50, 51, 52, 53>>),
       Outcome("Incomplete", <<54, 55, 56>>),
       Outcome("Ok", <<49, 50, 51>>),
       Outcome("End", <<>>) >>

\* C3: a logical line that the reader delivers whole in one chunk (the chunk
\* is the line and ends before the window is full) and that is valid text is
\* returned as Ok whatever preceded it; with capacity 5 the input
\* "12345678\r\n123" gives Incomplete("12345"), Incomplete("678"), Ok("123"), end.
C3_WholeLineIsOk ==
    /\ \A i \in Indexes :
          ( /\ WholeLine(results[i])
            /\ Len(results[i].raw) < max_size
            /\ IsUtf8(StripDelimiter(results[i].raw)) )
          => results[i].tag = "Ok"
    /\ ( /\ input = DocInput
         /\ max_size = DocCapacity
         /\ NoIoFailure
         /\ Len(results) = 4 )
       => Outcomes = DocOutcomes

(* --------------------------------- C4 ----------------------------------- *)
\* contents, in emission order, of the chunks from call j on that start
\* before offset e
RECURSIVE Pieces(_, _)
Pieces(j, e) ==
    IF j > Len(results) THEN <<>>
    ELSE IF ~HasChunk(results[j]) THEN Pieces(j + 1, e)
    ELSE IF results[j].from >= e THEN <<>>
    ELSE results[j].content \o Pieces(j + 1, e)

\* every chunk of the line that starts at offset s was returned as Ok or Incomplete
AllText(s) ==
    \A j \in Indexes :
        ( /\ HasChunk(results[j])
          /\ results[j].from >= s
          /\ results[j].from < LineEnd(input, s) )
        => IsText(results[j])

\* the terminator of a logical line: CR LF, LF, or nothing at end of stream
Terminator(line) ==
    LET n == Len(line)
    IN  IF n >= 2 /\ line[n] = LF /\ line[n - 1] = CR THEN <<CR, LF>>
        ELSE IF n >= 1 /\ line[n] = LF THEN <<LF>>
        ELSE <<>>

\* C4: for a logical line that has been read to its end, the contents of its
\* Ok/Incomplete results, concatenated in emission order and followed by the
\* line's terminator (LF, CR LF or nothing), are the bytes of the line; also
\* when the CR LF falls across a chunk boundary.
C4_Reassemble ==
    \A i \in Indexes :
        LET s    == results[i].from
            e    == LineEnd(input, s)
            line == SubSeq(input, s + 1, e)
        IN  ( /\ HasChunk(results[i])
              /\ s = LineStart(input, s)
              /\ pos >= e
              /\ AllText(s) )
            => Pieces(i, e) \o Terminator(line) = line

(* --------------------------------- C5 ----------------------------------- *)
\* C5: whenever the terminator-stripped bytes of the chunk of a call are not
\* valid text, the call returns Encoding and neither Ok nor Incomplete,
\* whatever the chunk's length and the pending flag on entry; "ab\xFE" with a
\* capacity that holds the line gives the single result Encoding.
C5_InvalidIsEncoding ==
    /\ \A i \in Indexes :
          ( /\ HasChunk(results[i])
            /\ ~IsUtf8(StripDelimiter(results[i].raw)) )
          => results[i].tag = "Encoding"
    /\ ( /\ input = NonAsciiInput
         /\ NoIoFailure
         /\ Len(results) = 2 )
       => Outcomes = << Outcome("Encoding", <<>>), Outcome("End", <<>>) >>

\* an invalid chunk that fills the window arrives while the flag is set
C5_Witness ==
    \E i \in Indexes :
        /\ results[i].tag = "Encoding"
        /\ results[i].pin
        /\ Len(results[i].raw) = max_size

(* --------------------------------- C6 ----------------------------------- *)
\* C6: the content read through a handle the caller still holds is the content
\* the handle had when next returned it, whatever calls (failing ones
\* included) were made since and whichever handles were kept or dropped.
C6_HandlesImmutable == \A h \in held : heap[h.id] = h.seen

\* a kept handle outlived a failing call and a later call that returned other text
C6_Witness ==
    \E h \in held : \E i, j, k \in Indexes :
        /\ i < j /\ j < k
        /\ results[i].id = h.id
        /\ results[j].tag \in {"Io", "Encoding"}
        /\ IsText(results[k])
        /\ results[k].content # h.seen
        /\ h.seen # <<>>

(* --------------------------------- C7 ----------------------------------- *)
\* the outcomes of calls k..n for a caller that keeps no handle: the buffer is
\* always reused, so the content is the stripped chunk; the calls at which
\* the reader failed are taken from the run
RECURSIVE Expected(_, _, _, _)
Expected(p, pend, k, n) ==
    IF k > n THEN <<>>
    ELSE IF results[k].tag = "Io"
      THEN <<Outcome("Io", <<>>)>> \o Expected(p, pend, k + 1, n)
    ELSE IF p = Len(input)
      THEN <<Outcome("End", <<>>)>> \o Expected(p, pend, k + 1, n)
    ELSE LET raw  == NextLine(DropFirst(input, p), max_size)
             line == StripDelimiter(raw)
             full == Len(line) = max_size
         IN  IF ~IsUtf8(line)
             THEN <<Outcome("Encoding", <<>>)>>
                      \o Expected(p + Len(raw), pend, k + 1, n)
             ELSE <<Outcome(IF full \/ pend THEN "Incomplete" ELSE "Ok", line)>>
                      \o Expected(p + Len(raw), full, k + 1, n)

\* C7: variant and content of every call depend only on the input, the
\* capacity (and the calls at which the reader failed), not on which handles
\* the caller kept: every run gives the outcomes of the run that keeps none.
C7_OutcomesIgnoreHandles == Outcomes = Expected(0, FALSE, 1, Len(results))

\* a run that kept a handle over a call (fresh storage) and dropped another
\* before a call (storage reused)
C7_Witness ==
    /\ allocs >= 1
    /\ \E i, j \in Indexes :
          /\ i < j
          /\ IsText(results[i]) /\ IsText(results[j])
          /\ results[i].id = results[j].id
          /\ results[i].content # results[j].content
(* --------------------------------- C8 ----------------------------------- *)
\* the calls that delivered a chunk, in order
Chunks == SelectSeq(results, HasChunk)

\* the chunks tile the input: none is skipped, none is delivered twice
ChunksTile ==
    /\ \A k \in 1..Len(Chunks) :
          /\ Chunks[k].from = (IF k = 1 THEN 0 ELSE ChunkEnd(Chunks[k - 1]))
          /\ Chunks[k].raw = NextLine(DropFirst(input, Chunks[k].from), max_size)
    /\ Exhausted => (IF Chunks = <<>> THEN 0 ELSE ChunkEnd(Last(Chunks))) = Len(input)

\* C8: after a call that returned Io or Encoding while input is left, the
\* following call does not return end-of-sequence; unless the reader fails
\* again it returns the result for the chunk that follows in the input; no
\* chunk is skipped or delivered twice.
C8_FailuresDoNotEnd ==
    /\ \A i \in 1..(Len(results) - 1) :
          ( /\ results[i].tag \in {"Io", "Encoding"}
            /\ ChunkEnd(results[i]) < Len(input) )
          => LET r == results[i + 1]
                 p == ChunkEnd(results[i])
             IN  /\ r.tag # "End"
                 /\ r.tag # "Io" =>
                       /\ r.from = p
                       /\ r.raw = NextLine(DropFirst(input, p), max_size)
                       /\ IsText(r) => r.content = StripDelimiter(r.raw)
    /\ ChunksTile

\* an Encoding failure and an Io failure were each followed by text
C8_Witness ==
    \E i, j \in 1..(Len(results) - 1) :
        /\ results[i].tag = "Encoding"
        /\ IsText(results[i + 1])
        /\ results[j].tag = "Io"
        /\ IsText(results[j + 1])

(* --------------------------------- C9 ----------------------------------- *)
\* C9: once next has returned end-of-sequence, every later call returns
\* end-of-sequence too, no data is returned again, and the pending flag, the
\* buffer's storage and its content stay as they are.
C9_ExhaustionIdempotent ==
    [][Exhausted =>
         /\ Exhausted'
         /\ DataResults' = DataResults
         /\ pos' = pos
         /\ pending_incomplete' = pending_incomplete
         /\ buffer' = buffer
         /\ heap'[buffer'] = heap[buffer]]_vars

\* next was called again after end-of-sequence while the flag was set and the
\* buffer held text
C9_Witness ==
    /\ EndCalls >= 2
    /\ pending_incomplete
    /\ heap[buffer] # <<>>

(* --------------------------------- C10 ---------------------------------- *)
\* C10: the content of every Ok or Incomplete result and of the shared buffer
\* is at most capacity bytes long, however long the input runs without a
\* terminator.
C10_ContentBounded ==
    /\ \A i \in Indexes : IsText(results[i]) => Len(results[i].content) <= max_size
    /\ \A s \in DOMAIN heap : Len(heap[s]) <= max_size

\* an input without terminator, longer than twice the capacity, read to its end
C10_Witness ==
    /\ Exhausted
    /\ Len(input) > 2 * max_size
    /\ \A p \in Offsets : input[p + 1] # LF
    /\ \E i \in Indexes : IsText(results[i]) /\ Len(results[i].content) = max_size
(* --------------------------------- C11 ---------------------------------- *)
\* pending_incomplete when call i returned: the flag changes in next() only
PendingOut(i) ==
    IF i < Len(results) THEN results[i + 1].pin ELSE pending_incomplete

\* the three-way decision of next for call i, full telling whether the chunk
\* counts as having filled the capacity
Decided(i, full) ==
    IF full THEN results[i].tag = "Incomplete" /\ PendingOut(i)
    ELSE IF results[i].pin THEN results[i].tag = "Incomplete" /\ ~PendingOut(i)
    ELSE results[i].tag = "Ok" /\ ~PendingOut(i)

ValidChunk(r) == HasChunk(r) /\ IsUtf8(StripDelimiter(r.raw))

\* C11 as stated: the decision is taken on the raw chunk: a valid chunk of
\* raw length capacity sets the flag and is Incomplete; otherwise a set flag
\* is cleared and the result is Incomplete; otherwise the result is Ok.
C11_AsStated ==
    \A i \in Indexes :
        ValidChunk(results[i]) => Decided(i, Len(results[i].raw) = max_size)

\* C11 amended: the decision is taken on the chunk after its terminator has
\* been stripped: a valid chunk whose stripped length is capacity sets the
\* flag and is Incomplete; otherwise a set flag is cleared and the result is
\* Incomplete; otherwise the result is Ok.
C11_DecidedOnStripped ==
    \A i \in Indexes :
        ValidChunk(results[i])
        => Decided(i, Len(results[i].raw) - Len(Terminator(results[i].raw)) = max_size)

\* a chunk of raw length capacity that ends in LF was returned as Ok, and
\* another one cleared the flag
C11_Witness ==
    \E i, j \in Indexes :
        /\ Len(results[i].raw) = max_size /\ Last(results[i].raw) = LF
        /\ results[i].tag = "Ok"
        /\ Len(results[j].raw) = max_size /\ Last(results[j].raw) = LF
        /\ results[j].tag = "Incomplete" /\ results[j].pin /\ ~PendingOut(j)

(* --------------------------------- C12 ---------------------------------- *)
\* offset p is the start of a logical line (or the end of the input)
AtLineBoundary(p) == p = 0 \/ input[p] = LF

\* C12: between two calls the flag is set only if the chunk returned last and
\* the chunk to come belong to one logical line; at the boundary between two
\* logical lines it is clear, also when the call before failed.
C12_PendingWithinLine ==
    (pending_incomplete /\ pos < Len(input)) => ~AtLineBoundary(pos)

(* --------------------------------- C15 ---------------------------------- *)
\* C15: a call that returns Io or Encoding leaves pending_incomplete as it
\* was on entry; only calls that return Ok or Incomplete change the flag.
C15_FailuresKeepPending ==
    \A i \in Indexes :
        /\ results[i].tag \in {"Io", "Encoding"} => PendingOut(i) = results[i].pin
        /\ PendingOut(i) # results[i].pin => IsText(results[i])

\* an Encoding and an Io failure each arrived while the flag was set
C15_Witness ==
    \E i, j \in Indexes :
        /\ results[i].tag = "Encoding" /\ results[i].pin /\ PendingOut(i)
        /\ results[j].tag = "Io" /\ results[j].pin /\ PendingOut(j)
(* --------------------------------- C13 ---------------------------------- *)
\* the step is a call of next
IsCall == Len(results') = Len(results) + 1

\* C13: a call that gets a chunk while the caller holds no handle to the
\* current storage writes into that storage and allocates nothing (so a
\* caller that drops every handle before the next call never causes an
\* allocation); while a handle is held it allocates exactly one fresh
\* storage, rebinds the buffer to it and leaves every other storage as it was.
C13_BufferReuse ==
    [][IsCall =>
         /\ allocs' > allocs => buffer \in HeldIds
         /\ IF ~HasChunk(Last(results'))
              THEN allocs' = allocs /\ buffer' = buffer
            ELSE IF buffer \notin HeldIds
              THEN /\ buffer' = buffer
                   /\ allocs' = allocs
                   /\ IsText(Last(results')) => heap'[buffer] = Last(results').content
              ELSE /\ buffer' \notin DOMAIN heap
                   /\ allocs' = allocs + 1
                   /\ \A st \in DOMAIN heap : st \in DOMAIN heap' /\ heap'[st] = heap[st]
                   /\ IsText(Last(results')) => heap'[buffer'] = Last(results').content
       ]_vars

\* the initial storage was reused for a second text, and a later call found a
\* handle held and allocated the one fresh storage
C13_Witness ==
    /\ allocs = 1
    /\ \E i, j, k \in Indexes :
          /\ i < j /\ j < k
          /\ IsText(results[i]) /\ results[i].id = 0
          /\ IsText(results[j]) /\ results[j].id = 0
          /\ IsText(results[k]) /\ results[k].id = 1

(* --------------------------------- C14 ---------------------------------- *)
EndsWith(seq, b) == Len(seq) > 0 /\ Last(seq) = b

\* C14: the content of an Ok or Incomplete result is the raw chunk without
\* one trailing LF, if it ends with LF, and then without one trailing CR, if
\* the rest ends with CR; a CR goes only together with the LF of the same
\* chunk, no other byte is removed or changed, no content contains LF.
C14_TerminatorStripped ==
    \A i \in Indexes :
        IsText(results[i]) =>
            LET raw == results[i].raw
                c   == results[i].content
            IN  /\ \E cut \in { <<>>, <<LF>>, <<CR, LF>> } :
                      /\ c \o cut = raw
                      /\ cut = <<>> => ~EndsWith(raw, LF)
                      /\ cut = <<LF>> => ~EndsWith(c, CR)
                /\ \A k \in 1..Len(c) : c[k] # LF

\* a chunk ending in CR LF lost both, a chunk ending in CR alone kept it
C14_Witness ==
    \E i, j \in Indexes :
        /\ IsText(results[i])
        /\ Len(results[i].content) = Len(results[i].raw) - 2
        /\ IsText(results[j])
        /\ EndsWith(results[j].content, CR)

(* --------------------------------- C17 ---------------------------------- *)
\* the step is a call of next that returned Encoding
IsEncodingCall == IsCall /\ Last(results').tag = "Encoding"

\* C17 as stated: a call that returns Encoding has not modified the shared
\* buffer: its storage and its content are as before the call.
C17_AsStated ==
    [][IsEncodingCall => buffer' = buffer /\ heap'[buffer'] = heap[buffer]]_vars

\* C17 amended: a call that returns Encoding has pushed no byte of the chunk
\* into the shared buffer, but the buffer was made ready before validation:
\* after the call it is empty, in the same storage if no caller's handle to
\* it was held, in one freshly allocated storage otherwise; the content
\* behind every handle the caller holds is unchanged.
C17_EncodingLeavesBufferEmpty ==
    [][IsEncodingCall =>
         /\ heap'[buffer'] = <<>>
         /\ IF buffer \notin HeldIds
              THEN buffer' = buffer /\ allocs' = allocs
              ELSE buffer' \notin DOMAIN heap /\ allocs' = allocs + 1
         /\ held' = held
         /\ \A h \in held : heap'[h.id] = heap[h.id]
       ]_vars

\* an Encoding failure emptied the storage that had carried the text before
C17_Witness ==
    /\ Len(results) >= 2
    /\ Last(results).tag = "Encoding"
    /\ IsText(results[Len(results) - 1])
    /\ results[Len(results) - 1].content # <<>>
    /\ results[Len(results) - 1].id = buffer
    /\ heap[buffer] = <<>>
(* --------------------------------- C16 ---------------------------------- *)
\* a caller that keeps calling next on a reader that does not fail
Calls == NextChunk \/ NextEnd

LiveSpec == Init /\ [][Calls]_vars /\ WF_vars(Calls)

\* every chunk delivered so far holds between one and capacity bytes, and no
\* more results than input bytes were returned for chunks
ConsumesInput ==
    /\ \A i \in Indexes :
          IsData(results[i]) =>
              /\ Len(results[i].raw) >= 1
              /\ Len(results[i].raw) <= max_size
              /\ (IF i < Len(results) THEN results[i + 1].from ELSE pos)
                     = results[i].from + Len(results[i].raw)
    /\ Len(DataResults) <= Len(input)

\* C16: for every finite input and capacity of at least 1, repeated calls of
\* next reach end-of-sequence; every call that returns a result for a chunk
\* consumes at least one and at most capacity bytes, so at most as many
\* results as the input has bytes come before end-of-sequence.
C16_ReachesEnd == <>Exhausted /\ []ConsumesInput

\* an input of more bytes than the capacity was read to its end in as many
\* calls as it has bytes
C16_Witness ==
    /\ Exhausted
    /\ Len(input) > max_size
    /\ Len(DataResults) = Len(input)
====
